---- MODULE Spec2Model ----
(***************************************************************************)
(* mouse-sovec: SoVec<T, A>, a vector that keeps its elements inside its   *)
(* own footprint (StackBuffer<T>) until a capacity request exceeds the     *)
(* inline capacity, and from then on in a heap block described by a        *)
(* HeapBuffer<T> written over the same bytes.  The allocator is the        *)
(* counting TestAllocator.                                                 *)
(*                                                                         *)
(* Elements are identified by the number 1, 2, ... they were created with, *)
(* so that moving, copying and dropping one element can be told from       *)
(* doing so to another.  A storage slot holds such a number, or Uninit.    *)
(***************************************************************************)
EXTENDS Integers, Sequences, FiniteSets, TLC

\* ------------------------------------------------------------------ bounds
\* Number of elements ever created (by push, or by the caller before an
\* extending set_len).
MaxElems == 2
\* Largest ordinary capacity / additional argument.
MaxRequest == 4
\* Width of usize in the model.  The arithmetic of the code is kept (wrapping
\* add, checked mul, isize::MAX layout limit); the width is scaled down from 64.
UsizeBits == 10
\* Number of addresses the system allocator can hand out.
MaxBlocks == 2

\* --------------------------------------------------------- target constants
SizeOfUsize == 8
U8Max == 255
NULL == 0
Uninit == 0

UsizeModulus == 2 ^ UsizeBits
UsizeMax == UsizeModulus - 1
IsizeMax == (UsizeModulus \div 2) - 1

\* size_of::<HeapBuffer<u8>>(): ptr, len_, cap_.
SizeOfHeapBuffer == 3 * SizeOfUsize
\* size_of::<Buffer0>() and size_of::<Buffer1>().
SizeOfBuffer0 == SizeOfUsize
SizeOfBuffer1 == SizeOfHeapBuffer - 1

\* The element types T the container is instantiated with: usize, String,
\* and a byte array larger than the inline region.
ElemTypes ==
    { [size |-> 8, align |-> 8],
      [size |-> 24, align |-> 8],
      [size |-> 32, align |-> 1] }

Builds == {"debug", "release"}
Ptrs == 1..MaxBlocks
ElemIds == 1..MaxElems

Min(a, b) == IF a < b THEN a ELSE b

VARIABLES
    T,        \* the element type: [size, align]
    build,    \* "debug": debug assertions and overflow checks on; "release": off
    pc,       \* "created" | "live" | "unwinding" | "aborted" | "dropped"
    vec,      \* SoVec.buffer: [len_, slots, heap]
    alloc,    \* SoVec.alloc, the TestAllocator: [mem, count, nalloc, ndealloc, nnull],
              \* and trace: the calls the current call made to the heap store
              \* and the allocator calls the heap store issued, with arguments
    elems,    \* element lifetimes: [next, drops, out]
    last,     \* the last call: what it was, what it saw, what it returned
    run,      \* the current run of pushes followed by pops
    ins       \* the values pushed, while only push and reserve_exact were called,
              \* and whether reserve_exact has changed the storage under them

vars == <<T, build, pc, vec, alloc, elems, last, run, ins>>

\* ------------------------------------------------------------- StackBuffer

\* StackBuffer::<T>::capacity()
StackBuffer_capacity(t) == (SizeOfBuffer0 + SizeOfBuffer1) \div t.size

\* StackBuffer::is_available
StackBuffer_is_available(len_) == len_ # U8Max

\* StackBuffer::len
StackBuffer_len(len_) == len_

\* StackBuffer::set_len: the stored value is new_len as u8
StackBuffer_set_len(new_len) == new_len % (U8Max + 1)

\* StackBuffer::disable: the value written to len_
StackBufferDisableWritesLess == U8Max - 1

StackBuffer_disable == U8Max

\* StackBuffer::new(): MaybeUninit region, len_ = 0.
StackBuffer_new(t) ==
    [len_ |-> 0,
     slots |-> [i \in 1..StackBuffer_capacity(t) |-> Uninit],
     heap |-> [ptr |-> NULL, len_ |-> 0, cap_ |-> 0]]

\* ----------------------------------------------------------- TestAllocator

NoBlock == [size |-> -1, data |-> <<>>]

\* TestAllocator::new()
TestAllocator_new ==
    [mem |-> [p \in Ptrs |-> NoBlock], count |-> 0, nalloc |-> 0, ndealloc |-> 0,
     nnull |-> 0, trace |-> <<>>]

FreePtrs(a) == {p \in Ptrs : a.mem[p] = NoBlock}

\* System.alloc: a fresh address, or null.  ok = FALSE is the allocator
\* running out of memory; a request above isize::MAX is always refused.
System_alloc(a, size, ok) ==
    IF ok /\ size <= IsizeMax /\ FreePtrs(a) # {}
    THEN CHOOSE p \in FreePtrs(a) : \A q \in FreePtrs(a) : p <= q
    ELSE NULL

\* TestAllocator::alloc(layout): [ptr, a]
TestAllocator_alloc(a, size, t, ok) ==
    LET ptr == System_alloc(a, size, ok) IN
    IF ptr # NULL
    THEN [ptr |-> ptr,
          a |-> [a EXCEPT !.mem[ptr] =
                              [size |-> size,
                               data |-> [i \in 1..(size \div t.size) |-> Uninit]],
                          !.count = @ + 1,
                          !.nalloc = @ + 1]]
    ELSE [ptr |-> NULL, a |-> [a EXCEPT !.nalloc = @ + 1, !.nnull = @ + 1]]

\* TestAllocator::dealloc(ptr, layout): [panic, a].  fetch_sub comes before
\* the test of the old value.
TestAllocator_dealloc(a, ptr) ==
    IF ptr = NULL
    THEN [panic |-> TRUE, a |-> [a EXCEPT !.ndealloc = @ + 1]]
    ELSE LET c == a.count IN
         IF c <= 0
         THEN [panic |-> TRUE,
               a |-> [a EXCEPT !.count = c - 1, !.ndealloc = @ + 1]]
         ELSE [panic |-> FALSE,
               a |-> [a EXCEPT !.count = c - 1,
                               !.mem[ptr] = NoBlock,
                               !.ndealloc = @ + 1]]

\* Layout::from_size_align(size, align) is Ok
Layout_from_size_align(size, align) == size <= IsizeMax - (align - 1)

\* GlobalAlloc::realloc, which TestAllocator does not override: build the
\* layout of the new size with Layout::from_size_align_unchecked, allocate
\* it, copy min(old, new) bytes, deallocate the old block.
\* [ptr, panic, abort, a]
\* A new size that, rounded up to the alignment, exceeds isize::MAX breaks
\* the precondition of from_size_align_unchecked: with debug assertions on
\* the check of that precondition ends the process before the allocator is
\* called; with them off the request goes to the allocator, which has no
\* block of that size and returns null.
TestAllocator_realloc(a, ptr, old_size, new_size, t, bld, ok) ==
    LET valid == Layout_from_size_align(new_size, t.align)
        r == TestAllocator_alloc(a, new_size, t, ok /\ valid)
    IN
    IF ~valid /\ bld = "debug"
    THEN [ptr |-> NULL, panic |-> FALSE, abort |-> TRUE, a |-> a]
    ELSE IF r.ptr = NULL
    THEN [ptr |-> NULL, panic |-> FALSE, abort |-> FALSE, a |-> r.a]
    ELSE LET n == Min(old_size, new_size) \div t.size
             copied == [r.a EXCEPT !.mem[r.ptr].data =
                           [i \in 1..Len(@) |->
                               IF i <= n THEN a.mem[ptr].data[i] ELSE @[i]]]
             d == TestAllocator_dealloc(copied, ptr)
         IN  [ptr |-> r.ptr, panic |-> d.panic, abort |-> FALSE, a |-> d.a]

\* -------------------------------------------------------------- HeapBuffer

\* A call of a HeapBuffer function, with the capacity asked for and the
\* length self has on entry.
HeapCall(fn, capacity, len) == [fn |-> fn, capacity |-> capacity, len |-> len]

\* A call HeapBuffer issues to the allocator: the byte size of the layout it
\* passes, the byte size asked for, and the byte size of the block at the
\* pointer it passes.
AllocCall(fn, layout, size, held) ==
    [fn |-> fn, layout |-> layout, size |-> size, held |-> held]

\* The allocator with one more call on its trace.
Traced(a, call) == [a EXCEPT !.trace = Append(@, call)]

\* usize multiplication that wraps instead of reporting the overflow.
CheckedMulWraps(a, b) == [some |-> TRUE, val |-> (a * b) % UsizeModulus]

\* usize::checked_mul
checked_mul(a, b) ==
    IF a * b > UsizeMax
    THEN [some |-> FALSE, val |-> 0]
    ELSE [some |-> TRUE, val |-> a * b]

\* HeapBuffer::layout: the byte size of the block self holds
\* A layout computed from the length instead of the capacity.
HeapBufferLayoutOfLen(hb, t) == t.size * hb.len_

HeapBuffer_layout(hb, t) == t.size * hb.cap_

\* The test HeapBuffer makes of what the allocator returned: ptr.is_null()
HeapBufferNeverTestsNull(ptr) == FALSE

HeapBuffer_is_null(ptr) == ptr = NULL

\* The descriptor HeapBuffer::with_capacity returns.
HeapBufferNewCapacityShort(ptr, capacity) ==
    [ptr |-> ptr, len_ |-> 0, cap_ |-> capacity - 1]

HeapBuffer_new(ptr, capacity) ==
    [ptr |-> ptr, len_ |-> 0, cap_ |-> capacity]

\* HeapBuffer::with_capacity(capacity, alloc): [outcome, hb, a]
\* outcome "panic": debug_assert_ne, expect, unwrap_or_else; "abort":
\* handle_alloc_error.
HeapBuffer_with_capacity(capacity, t, a, bld, ok) ==
    LET none == [ptr |-> NULL, len_ |-> 0, cap_ |-> 0]
        size == checked_mul(capacity, t.size)
        a0 == Traced(a, HeapCall("HeapBuffer::with_capacity", capacity, 0))
    IN
    IF bld = "debug" /\ capacity = 0
    THEN [outcome |-> "panic", hb |-> none, a |-> a0]
    ELSE IF ~size.some
    THEN [outcome |-> "panic", hb |-> none, a |-> a0]
    ELSE IF ~Layout_from_size_align(size.val, t.align)
    THEN [outcome |-> "panic", hb |-> none, a |-> a0]
    ELSE LET a1 == Traced(a0, AllocCall("alloc", size.val, size.val, 0))
             r == TestAllocator_alloc(a1, size.val, t, ok)
         IN
         IF HeapBuffer_is_null(r.ptr)
         THEN [outcome |-> "abort", hb |-> none, a |-> r.a]
         ELSE [outcome |-> "ok", hb |-> HeapBuffer_new(r.ptr, capacity), a |-> r.a]

\* HeapBuffer::set_len
HeapBuffer_set_len(hb, new_len) == [hb EXCEPT !.len_ = new_len]

\* The else branch of HeapBuffer::set_capacity: self.ptr = ptr; self.cap_ = new_capacity
HeapBufferRegrownKeepsCap(hb, ptr, new_capacity) ==
    [hb EXCEPT !.ptr = ptr]

HeapBuffer_regrown(hb, ptr, new_capacity) ==
    [hb EXCEPT !.ptr = ptr, !.cap_ = new_capacity]

\* HeapBuffer::set_capacity(new_capacity, alloc): [outcome, hb, a]
\* In a release build new_capacity = 0 reaches realloc with new_size = 0,
\* which GlobalAlloc leaves undefined: the allocator returns either a block
\* of no bytes or null.  A new_size above isize::MAX ends the process inside
\* realloc in a debug build; in a release build realloc returns null and
\* Layout::from_size_align at line 115 panics.
HeapBuffer_set_capacity(hb, new_capacity, t, a, bld, ok) ==
    LET layout == HeapBuffer_layout(hb, t)
        new_size == checked_mul(new_capacity, t.size)
        a0 == Traced(a, HeapCall("HeapBuffer::set_capacity", new_capacity, hb.len_))
    IN
    IF bld = "debug" /\ (new_capacity = 0 \/ ~(hb.len_ <= new_capacity))
    THEN [outcome |-> "panic", hb |-> hb, a |-> a0]
    ELSE IF ~new_size.some
    THEN [outcome |-> "panic", hb |-> hb, a |-> a0]
    ELSE LET a1 == Traced(a0, AllocCall("realloc", layout, new_size.val,
                                        a.mem[hb.ptr].size))
             r == TestAllocator_realloc(a1, hb.ptr, layout, new_size.val, t, bld, ok)
         IN
         IF r.abort
         THEN [outcome |-> "abort", hb |-> hb, a |-> r.a]
         ELSE IF HeapBuffer_is_null(r.ptr)
         THEN IF Layout_from_size_align(new_size.val, t.align)
              THEN [outcome |-> "abort", hb |-> hb, a |-> r.a]
              ELSE [outcome |-> "panic", hb |-> hb, a |-> r.a]
         ELSE IF r.panic
         THEN [outcome |-> "panic", hb |-> hb, a |-> r.a]
         ELSE [outcome |-> "ok",
               hb |-> HeapBuffer_regrown(hb, r.ptr, new_capacity),
               a |-> r.a]

\* HeapBuffer::pre_drop (the cfg(test) one, the build TestAllocator exists
\* in): [outcome, hb, a]
HeapBuffer_pre_drop(hb, t, a) ==
    IF hb.len_ # 0 \/ hb.ptr = NULL
    THEN [outcome |-> "panic", hb |-> hb, a |-> a]
    ELSE LET a1 == Traced(a, AllocCall("dealloc", HeapBuffer_layout(hb, t), 0,
                                       a.mem[hb.ptr].size))
             d == TestAllocator_dealloc(a1, hb.ptr)
         IN
         IF d.panic
         THEN [outcome |-> "panic", hb |-> hb, a |-> d.a]
         ELSE [outcome |-> "ok", hb |-> [hb EXCEPT !.ptr = NULL], a |-> d.a]

\* ------------------------------------------------------------------- SoVec

\* SoVec::is_using_stack
SoVec_is_using_stack(v) == StackBuffer_is_available(v.len_)

\* SoVec::len
SoVec_len(v) ==
    IF SoVec_is_using_stack(v) THEN StackBuffer_len(v.len_) ELSE v.heap.len_

\* SoVec::capacity
SoVec_capacity(v, t) ==
    IF SoVec_is_using_stack(v) THEN StackBuffer_capacity(t) ELSE v.heap.cap_

\* The storage SoVec::as_ptr / as_mut_ptr point to, as a sequence of slots.
SoVec_as_ptr(v, a) ==
    IF SoVec_is_using_stack(v) THEN v.slots ELSE a.mem[v.heap.ptr].data

\* AsRef<[T]>: slice::from_raw_parts(self.as_ptr(), self.len())
SoVec_as_ref(v, a) == SubSeq(SoVec_as_ptr(v, a), 1, SoVec_len(v))

\* core::ptr::write(self.as_mut_ptr().add(i), elm): [vec, a]
SoVec_write(v, a, i, elm) ==
    IF SoVec_is_using_stack(v)
    THEN [vec |-> [v EXCEPT !.slots[i + 1] = elm], a |-> a]
    ELSE [vec |-> v, a |-> [a EXCEPT !.mem[v.heap.ptr].data[i + 1] = elm]]

\* SoVec::set_len
SoVecSetLenAlwaysStack(v, new_len) ==
    [v EXCEPT !.len_ = StackBuffer_set_len(new_len)]

SoVec_set_len(v, new_len) ==
    IF SoVec_is_using_stack(v)
    THEN [v EXCEPT !.len_ = StackBuffer_set_len(new_len)]
    ELSE [v EXCEPT !.heap = HeapBuffer_set_len(@, new_len)]

\* SoVec::to_heap: the descriptor is written over the inline bytes, then the
\* inline view is disabled.
SoVec_to_heap(v, t, new_buffer) ==
    [len_ |-> StackBuffer_disable,
     slots |-> [i \in 1..StackBuffer_capacity(t) |-> Uninit],
     heap |-> new_buffer]

\* From<A> for SoVec
SoVec_from(t) == StackBuffer_new(t)

\* The test of with_capacity: the request does not fit inline.
WithCapacitySpillsAtEqual(capacity, t) == StackBuffer_capacity(t) <= capacity

SoVec_with_capacity_spills(capacity, t) == StackBuffer_capacity(t) < capacity

\* SoVec::with_capacity(capacity, alloc): [outcome, vec, a]
SoVec_with_capacity(capacity, t, a, bld, ok) ==
    LET ret == SoVec_from(t) IN
    IF SoVec_with_capacity_spills(capacity, t)
    THEN LET h == HeapBuffer_with_capacity(capacity, t, a, bld, ok) IN
         IF h.outcome = "ok"
         THEN [outcome |-> "ok", vec |-> SoVec_to_heap(ret, t, h.hb), a |-> h.a]
         ELSE [outcome |-> h.outcome, vec |-> ret, a |-> h.a]
    ELSE [outcome |-> "ok", vec |-> ret, a |-> a]

\* std::ptr::copy_nonoverlapping(src, dst, count) on slots
copy_nonoverlapping(src, dst, count) ==
    [i \in 1..Len(dst) |-> IF i <= count THEN src[i] ELSE dst[i]]

\* The number of elements reserve_exact copies out of the inline region.
ReserveExactCopiesOneLess(v) == IF SoVec_len(v) = 0 THEN 0 ELSE SoVec_len(v) - 1

SoVec_reserve_exact_count(v) == SoVec_len(v)

\* The early return of reserve_exact.
ReserveExactFitsStrict(new_capacity, v, t) == new_capacity < SoVec_capacity(v, t)

ReserveExactFitsOneMore(new_capacity, v, t) == new_capacity <= SoVec_capacity(v, t) + 1

ReserveExactNeverFits(new_capacity, v, t) == FALSE

SoVec_reserve_exact_fits(new_capacity, v, t) == new_capacity <= SoVec_capacity(v, t)

\* The branch of reserve_exact that creates the heap store.
ReserveExactAlwaysCreates(v) == TRUE

SoVec_reserve_exact_creates(v) == SoVec_is_using_stack(v)

\* SoVec::reserve_exact(additional): [outcome, vec, a]
\* self.len() + additional panics on overflow with overflow checks on and
\* wraps with them off.
SoVec_reserve_exact(v, additional, t, a, bld, ok) ==
    LET sum == SoVec_len(v) + additional
        new_capacity == sum % UsizeModulus
    IN
    IF sum > UsizeMax /\ bld = "debug"
    THEN [outcome |-> "panic", vec |-> v, a |-> a]
    ELSE IF SoVec_reserve_exact_fits(new_capacity, v, t)
    THEN [outcome |-> "ok", vec |-> v, a |-> a]
    ELSE IF SoVec_reserve_exact_creates(v)
    THEN LET h == HeapBuffer_with_capacity(new_capacity, t, a, bld, ok) IN
         IF h.outcome # "ok"
         THEN [outcome |-> h.outcome, vec |-> v, a |-> h.a]
         ELSE LET copied == [h.a EXCEPT !.mem[h.hb.ptr].data =
                                copy_nonoverlapping(SoVec_as_ptr(v, a), @,
                                                    SoVec_reserve_exact_count(v))]
                  heap_buffer == HeapBuffer_set_len(h.hb, SoVec_len(v))
              IN  [outcome |-> "ok",
                   vec |-> SoVec_to_heap(v, t, heap_buffer),
                   a |-> copied]
    ELSE LET h == HeapBuffer_set_capacity(v.heap, new_capacity, t, a, bld, ok) IN
         [outcome |-> h.outcome, vec |-> [v EXCEPT !.heap = h.hb], a |-> h.a]

\* Where push writes: self.as_mut_ptr().add(self.len())
PushOverwritesLast(v) == IF SoVec_len(v) = 0 THEN 0 ELSE SoVec_len(v) - 1

SoVec_push_index(v) == SoVec_len(v)

\* SoVec::push(elm): [vec, a]
SoVec_push(v, a, elm) ==
    LET w == SoVec_write(v, a, SoVec_push_index(v), elm) IN
    [vec |-> SoVec_set_len(w.vec, SoVec_len(w.vec) + 1), a |-> w.a]

\* The index pop reads after set_len(len - 1): self.as_ptr().add(self.len())
PopReadsBelow(v) == IF SoVec_len(v) = 0 THEN 1 ELSE SoVec_len(v)

SoVec_pop_index(v) == SoVec_len(v) + 1

\* A read through a raw pointer: what the slot holds; outside the storage
\* the bytes read are no element of the container.
ptr_read(slots, i) == IF i \in DOMAIN slots THEN slots[i] ELSE Uninit

\* The test of pop: self.len() == 0
PopTestsInlineLength(v) == v.len_ = 0

SoVec_pop_is_empty(v) == SoVec_len(v) = 0

\* pop without set_len: the element is copied out and stays in the container.
PopLeavesResidual(v, a) ==
    IF SoVec_pop_is_empty(v)
    THEN [vec |-> v, ret |-> [some |-> FALSE, val |-> Uninit]]
    ELSE [vec |-> v,
          ret |-> [some |-> TRUE, val |-> ptr_read(SoVec_as_ptr(v, a), SoVec_len(v))]]

\* SoVec::pop(): [vec, ret]; ret.some = FALSE is None
SoVec_pop(v, a) ==
    IF SoVec_pop_is_empty(v)
    THEN [vec |-> v, ret |-> [some |-> FALSE, val |-> Uninit]]
    ELSE LET w == SoVec_set_len(v, SoVec_len(v) - 1) IN
         [vec |-> w,
          ret |-> [some |-> TRUE,
                   val |-> ptr_read(SoVec_as_ptr(w, a), SoVec_pop_index(w))]]

\* core::ptr::drop_in_place on the slots lo+1 .. hi: the drop counts after it
drop_in_place(drops, slots, lo, hi) ==
    [id \in ElemIds |->
        drops[id] + Cardinality({i \in (lo + 1)..hi : slots[i] = id})]

\* The first index truncate drops.
\* truncate that destroys from the first slot on, whatever new_len is.
TruncateDropsFromZero(new_len) == 0

TruncateSkipsFirst(new_len) == new_len + 1

SoVec_truncate_from(new_len) == new_len

\* SoVec::truncate(new_len): [vec, drops]
SoVec_truncate(v, a, drops, new_len) ==
    IF SoVec_len(v) <= new_len
    THEN [vec |-> v, drops |-> drops]
    ELSE [vec |-> SoVec_set_len(v, new_len),
          drops |-> drop_in_place(drops, SoVec_as_ptr(v, a),
                                  SoVec_truncate_from(new_len), SoVec_len(v))]

\* SoVec::clear
SoVec_clear(v, a, drops) == SoVec_truncate(v, a, drops, 0)

\* The capacity shrink_to_fit asks for.
ShrinkToFitKeepsCapacity(v) == v.heap.cap_

ShrinkToFitOneShort(v) == IF SoVec_len(v) = 0 THEN 0 ELSE SoVec_len(v) - 1

SoVec_shrink_to_fit_capacity(v) == SoVec_len(v)

\* SoVec::shrink_to_fit(): [outcome, vec, a]
SoVec_shrink_to_fit(v, t, a, bld, ok) ==
    IF SoVec_is_using_stack(v)
    THEN [outcome |-> "ok", vec |-> v, a |-> a]
    ELSE LET new_capacity == SoVec_shrink_to_fit_capacity(v)
             h == HeapBuffer_set_capacity(v.heap, new_capacity, t, a, bld, ok)
         IN  [outcome |-> h.outcome, vec |-> [v EXCEPT !.heap = h.hb], a |-> h.a]

\* Whether drop releases the heap block.
DropNeverReleases(v) == FALSE

SoVec_drop_releases(v) == ~SoVec_is_using_stack(v)

\* Drop for SoVec: [outcome, vec, a, drops]
SoVec_drop(v, t, a, drops) ==
    LET c == SoVec_clear(v, a, drops) IN
    IF SoVec_drop_releases(c.vec)
    THEN LET d == HeapBuffer_pre_drop(c.vec.heap, t, a) IN
         [outcome |-> d.outcome,
          vec |-> [c.vec EXCEPT !.heap = d.hb],
          a |-> d.a,
          drops |-> c.drops]
    ELSE [outcome |-> "ok", vec |-> c.vec, a |-> a, drops |-> c.drops]

\* ------------------------------------------------------------ the program

NoRet == [some |-> FALSE, val |-> Uninit]
NoRun == [base |-> 0, pushed |-> <<>>, popped |-> <<>>]
NoIns == [pure |-> FALSE, vals |-> <<>>, moved |-> FALSE]

\* What a call sees on entry.
Snap(v, a, e) ==
    [len |-> SoVec_len(v),
     cap |-> SoVec_capacity(v, T),
     stack |-> SoVec_is_using_stack(v),
     elems |-> SoVec_as_ref(v, a),
     drops |-> e.drops,
     ptr |-> v.heap.ptr]

Call(op, arg, outcome, ret) ==
    [op |-> op, arg |-> arg, outcome |-> outcome, ret |-> ret,
     pre |-> Snap(vec, alloc, elems)]

\* The allocator with the per-call counters of alloc calls, dealloc calls and
\* null results reset and the trace emptied.
Begin(a) == [a EXCEPT !.nalloc = 0, !.ndealloc = 0, !.nnull = 0, !.trace = <<>>]

\* Where control is after a call: a panic unwinds into the owner's frame,
\* which drops the container; handle_alloc_error ends the process.
After(outcome) ==
    CASE outcome = "ok" -> "live"
      [] outcome = "panic" -> "unwinding"
      [] OTHER -> "aborted"

\* Capacity arguments: the ordinary ones, one whose byte size exceeds
\* isize::MAX, one whose byte size overflows usize, and the top of usize.
Requests(t) ==
    (0..MaxRequest)
        \cup {IsizeMax \div t.size + 1, UsizeMax \div t.size + 1, UsizeMax}

Init ==
    /\ T \in ElemTypes
    /\ build \in Builds
    /\ pc = "created"
    /\ vec = SoVec_from(T)
    /\ alloc = TestAllocator_new
    /\ elems = [next |-> 1, drops |-> [id \in ElemIds |-> 0], out |-> {}]
    /\ last = [op |-> "from", arg |-> 0, outcome |-> "ok", ret |-> NoRet,
               pre |-> [len |-> 0, cap |-> StackBuffer_capacity(T), stack |-> TRUE,
                        elems |-> <<>>, drops |-> [id \in ElemIds |-> 0],
                        ptr |-> NULL]]
    /\ run = NoRun
    /\ ins = [pure |-> TRUE, vals |-> <<>>, moved |-> FALSE]

\* SoVec::new(alloc)
New ==
    /\ pc = "created"
    /\ pc' = "live"
    /\ last' = Call("new", 0, "ok", NoRet)
    /\ alloc' = Begin(alloc)
    /\ UNCHANGED <<T, build, vec, elems, run, ins>>

\* SoVec::with_capacity(capacity, alloc)
WithCapacity(capacity, ok) ==
    /\ pc = "created"
    /\ LET r == SoVec_with_capacity(capacity, T, Begin(alloc), build, ok) IN
       /\ pc' = After(r.outcome)
       /\ vec' = r.vec
       /\ alloc' = r.a
       /\ last' = Call("with_capacity", capacity, r.outcome, NoRet)
    /\ UNCHANGED <<T, build, elems, run, ins>>

\* SoVec::reserve_exact(additional)
ReserveExact(additional, ok) ==
    /\ pc = "live"
    /\ LET r == SoVec_reserve_exact(vec, additional, T, Begin(alloc), build, ok) IN
       /\ pc' = After(r.outcome)
       /\ vec' = r.vec
       /\ alloc' = r.a
       /\ last' = Call("reserve_exact", additional, r.outcome, NoRet)
       /\ ins' = IF ins.vals # <<>> /\ r.vec # vec
                 THEN [ins EXCEPT !.moved = TRUE]
                 ELSE ins
    /\ run' = NoRun
    /\ UNCHANGED <<T, build, elems>>

\* SoVec::push(elm), called within its contract len < capacity; elm is a
\* new element.
Push ==
    /\ pc = "live"
    /\ SoVec_len(vec) < SoVec_capacity(vec, T)
    /\ elems.next <= MaxElems
    /\ LET elm == elems.next
           r == SoVec_push(vec, Begin(alloc), elm)
       IN
       /\ vec' = r.vec
       /\ alloc' = r.a
       /\ elems' = [elems EXCEPT !.next = @ + 1]
       /\ last' = Call("push", elm, "ok", NoRet)
       /\ run' = IF run.popped = <<>>
                 THEN [base |-> IF run.pushed = <<>> THEN SoVec_len(vec) ELSE run.base,
                       pushed |-> Append(run.pushed, elm),
                       popped |-> <<>>]
                 ELSE [base |-> SoVec_len(vec), pushed |-> <<elm>>, popped |-> <<>>]
       /\ ins' = IF ins.pure THEN [ins EXCEPT !.vals = Append(@, elm)] ELSE ins
    /\ UNCHANGED <<T, build, pc>>

\* SoVec::pop()
Pop ==
    /\ pc = "live"
    /\ LET r == SoVec_pop(vec, alloc) IN
       /\ vec' = r.vec
       /\ elems' = IF r.ret.some THEN [elems EXCEPT !.out = @ \cup {r.ret.val}] ELSE elems
       /\ last' = Call("pop", 0, "ok", r.ret)
       /\ run' = IF Len(run.popped) < Len(run.pushed)
                 THEN [run EXCEPT !.popped = Append(@, r.ret)]
                 ELSE NoRun
    /\ ins' = NoIns
    /\ alloc' = Begin(alloc)
    /\ UNCHANGED <<T, build, pc>>

\* SoVec::set_len(new_len), called within its contract: new_len <= capacity,
\* the caller has dropped the elements at new_len..old_len when shrinking and
\* has written new elements to old_len..new_len when extending.
SetLen(new_len) ==
    /\ pc = "live"
    /\ new_len <= SoVec_capacity(vec, T)
    /\ LET old_len == SoVec_len(vec)
           made == IF new_len > old_len THEN new_len - old_len ELSE 0
           written == [i \in 1..made |-> elems.next + i - 1]
           store == [i \in 1..Len(SoVec_as_ptr(vec, alloc)) |->
                        IF old_len < i /\ i <= new_len
                        THEN written[i - old_len]
                        ELSE SoVec_as_ptr(vec, alloc)[i]]
           w == IF SoVec_is_using_stack(vec)
                THEN [vec |-> [vec EXCEPT !.slots = store], a |-> Begin(alloc)]
                ELSE [vec |-> vec,
                      a |-> [Begin(alloc) EXCEPT !.mem[vec.heap.ptr].data = store]]
       IN
       /\ elems.next + made <= MaxElems + 1
       /\ vec' = SoVec_set_len(w.vec, new_len)
       /\ alloc' = w.a
       /\ elems' = [elems EXCEPT
                       !.next = @ + made,
                       !.drops = drop_in_place(@, SoVec_as_ptr(vec, alloc),
                                               Min(new_len, old_len), old_len)]
       /\ last' = Call("set_len", new_len, "ok", NoRet)
    /\ run' = NoRun
    /\ ins' = NoIns
    /\ UNCHANGED <<T, build, pc>>

\* SoVec::truncate(new_len)
Truncate(new_len) ==
    /\ pc = "live"
    /\ LET r == SoVec_truncate(vec, alloc, elems.drops, new_len) IN
       /\ vec' = r.vec
       /\ elems' = [elems EXCEPT !.drops = r.drops]
       /\ last' = Call("truncate", new_len, "ok", NoRet)
    /\ alloc' = Begin(alloc)
    /\ run' = NoRun
    /\ ins' = NoIns
    /\ UNCHANGED <<T, build, pc>>

\* SoVec::clear()
Clear ==
    /\ pc = "live"
    /\ LET r == SoVec_clear(vec, alloc, elems.drops) IN
       /\ vec' = r.vec
       /\ elems' = [elems EXCEPT !.drops = r.drops]
       /\ last' = Call("clear", 0, "ok", NoRet)
    /\ alloc' = Begin(alloc)
    /\ run' = NoRun
    /\ ins' = NoIns
    /\ UNCHANGED <<T, build, pc>>

\* SoVec::shrink_to_fit()
ShrinkToFit(ok) ==
    /\ pc = "live"
    /\ LET r == SoVec_shrink_to_fit(vec, T, Begin(alloc), build, ok) IN
       /\ pc' = After(r.outcome)
       /\ vec' = r.vec
       /\ alloc' = r.a
       /\ last' = Call("shrink_to_fit", 0, r.outcome, NoRet)
    /\ run' = NoRun
    /\ ins' = NoIns
    /\ UNCHANGED <<T, build, elems>>

\* Drop for SoVec: the owner lets the container go, or a panic unwinds
\* through the owner's frame.
Drop ==
    /\ pc \in {"live", "unwinding"}
    /\ LET r == SoVec_drop(vec, T, Begin(alloc), elems.drops) IN
       /\ pc' = IF r.outcome = "ok" THEN "dropped" ELSE "aborted"
       /\ vec' = r.vec
       /\ alloc' = r.a
       /\ elems' = [elems EXCEPT !.drops = r.drops]
       /\ last' = Call("drop", 0, r.outcome, NoRet)
    /\ run' = NoRun
    /\ ins' = NoIns
    /\ UNCHANGED <<T, build>>

Next ==
    \/ New
    \/ \E capacity \in Requests(T), ok \in BOOLEAN : WithCapacity(capacity, ok)
    \/ \E additional \in Requests(T), ok \in BOOLEAN : ReserveExact(additional, ok)
    \/ Push
    \/ Pop
    \/ \E new_len \in 0..MaxElems : SetLen(new_len)
    \/ \E new_len \in 0..MaxElems : Truncate(new_len)
    \/ Clear
    \/ \E ok \in BOOLEAN : ShrinkToFit(ok)
    \/ Drop

Spec == Init /\ [][Next]_vars

\* ------------------------------------------------------------- properties

Range(f) == {f[i] : i \in DOMAIN f}

Len_ == SoVec_len(vec)
Cap_ == SoVec_capacity(vec, T)
Stack_ == SoVec_is_using_stack(vec)
Elems_ == SoVec_as_ref(vec, alloc)
Returned(op) == last.op = op /\ last.outcome = "ok"

\* C1: N pushes followed by N pops return the pushed values in reverse order,
\* each as Some(value), and leave len() at its value before the pushes.
PushPopIsLifo ==
    /\ \A i \in 1..Len(run.popped) :
          run.popped[i] = [some |-> TRUE, val |-> run.pushed[Len(run.pushed) + 1 - i]]
    /\ (run.pushed # <<>> /\ Len(run.popped) = Len(run.pushed)) => Len_ = run.base

\* Two pushes and then two pops were made on a heap-backed container.
PushPopIsLifoWitness ==
    /\ Len(run.pushed) = 2
    /\ Len(run.popped) = 2
    /\ ~Stack_

\* C2: with_capacity(c, alloc) returns a container with len() = 0 and
\* capacity() >= c.
WithCapacityHoldsRequest ==
    Returned("with_capacity") => Len_ = 0 /\ Cap_ >= last.arg

\* with_capacity returned for a request one above the inline capacity.
WithCapacityHoldsRequestWitness ==
    /\ Returned("with_capacity")
    /\ last.arg = StackBuffer_capacity(T) + 1
    /\ ~Stack_

\* C3: after reserve_exact(additional) returns, capacity() >= len() + additional
\* (as a mathematical sum) and len() is what it was.
ReserveExactReserves ==
    Returned("reserve_exact") =>
        /\ Cap_ >= last.pre.len + last.arg
        /\ Len_ = last.pre.len

\* C4: a heap-backed container stays heap-backed under every operation.
HeapIsForever == [][~Stack_ => ~Stack_']_vars

\* An operation that reallocates has run on a heap-backed container.
HeapIsForeverWitness ==
    /\ Returned("shrink_to_fit")
    /\ ~last.pre.stack
    /\ ~Stack_
    /\ alloc.nalloc = 1

\* C5: when reserve_exact moves the elements to the heap or regrows the heap
\* block, the element sequence is the one before the call.
ReserveExactKeepsElements ==
    (Returned("reserve_exact") /\ alloc.nalloc > 0) => Elems_ = last.pre.elems

\* reserve_exact moved a non-empty inline container to the heap.
ReserveExactKeepsElementsWitness ==
    /\ Returned("reserve_exact")
    /\ last.pre.stack
    /\ ~Stack_
    /\ Len(last.pre.elems) >= 1
    /\ alloc.nalloc = 1

\* C6: while the container is heap-backed, the descriptor's pointer is not
\* null and its capacity is above 0.
HeapDescriptorIsValid ==
    (pc = "live" /\ ~Stack_) => vec.heap.ptr # NULL /\ vec.heap.cap_ > 0

\* C7: the allocator's count of allocations minus deallocations is never
\* negative, no deallocation fails, and after drop the count is 0 and no
\* block is left.
AllocationsBalance ==
    /\ alloc.count >= 0
    /\ last.op = "drop" => last.outcome = "ok"
    /\ pc = "dropped" => alloc.count = 0 /\ \A p \in Ptrs : alloc.mem[p] = NoBlock

\* A heap-backed container was dropped and its block released.
AllocationsBalanceWitness ==
    /\ pc = "dropped"
    /\ ~last.pre.stack
    /\ alloc.ndealloc = 1

\* C8: drop destroys each element live at that moment once and no other,
\* and deallocates once if the container is heap-backed and not at all if it
\* is inline.
DropDestroysLiveOnce ==
    last.op = "drop" =>
        /\ last.outcome = "ok"
        /\ \A id \in ElemIds :
              elems.drops[id] =
                  last.pre.drops[id]
                      + Cardinality({i \in DOMAIN last.pre.elems : last.pre.elems[i] = id})
        /\ \A id \in Range(last.pre.elems) : elems.drops[id] = 1
        /\ alloc.ndealloc = (IF last.pre.stack THEN 0 ELSE 1)
        /\ alloc.nalloc = 0

\* A heap-backed container holding two elements was dropped.
DropDestroysLiveOnceWitness ==
    /\ last.op = "drop"
    /\ ~last.pre.stack
    /\ Len(last.pre.elems) = 2

\* C9: reserve_exact(k) with k <= capacity() - len() changes nothing:
\* capacity, length, representation, elements, and no allocator call.
ReserveExactWithinCapacityIsNoOp ==
    (last.op = "reserve_exact" /\ last.arg <= last.pre.cap - last.pre.len) =>
        /\ last.outcome = "ok"
        /\ Cap_ = last.pre.cap
        /\ Len_ = last.pre.len
        /\ Stack_ = last.pre.stack
        /\ Elems_ = last.pre.elems
        /\ alloc.nalloc = 0
        /\ alloc.ndealloc = 0

\* reserve_exact was called with exactly the free capacity, above 0.
ReserveExactWithinCapacityIsNoOpWitness ==
    /\ last.op = "reserve_exact"
    /\ last.arg = last.pre.cap - last.pre.len
    /\ last.arg > 0
    /\ last.pre.len > 0

\* C10: shrink_to_fit on a heap-backed container of length L > 0 yields
\* capacity() = L with length and elements unchanged; on an inline container
\* it changes nothing and calls no allocator.
ShrinkToFitFits ==
    last.op = "shrink_to_fit" =>
        IF last.pre.stack
        THEN /\ last.outcome = "ok"
             /\ Stack_
             /\ Cap_ = last.pre.cap
             /\ Len_ = last.pre.len
             /\ Elems_ = last.pre.elems
             /\ alloc.nalloc = 0
             /\ alloc.ndealloc = 0
        ELSE last.pre.len > 0 =>
                /\ last.outcome \in {"ok", "abort"}
                /\ last.outcome = "ok" =>
                      /\ ~Stack_
                      /\ Cap_ = last.pre.len
                      /\ Len_ = last.pre.len
                      /\ Elems_ = last.pre.elems

\* shrink_to_fit returned on a heap-backed container with spare capacity.
ShrinkToFitFitsWitness ==
    /\ Returned("shrink_to_fit")
    /\ ~last.pre.stack
    /\ last.pre.len > 0
    /\ last.pre.cap > last.pre.len

\* C11: in every reachable state, inline or heap-backed, len() <= capacity(),
\* for calls of push and set_len made within their contracts.
LenWithinCapacity == Len_ <= Cap_

\* A heap-backed container filled to its capacity, after a call that changed
\* the capacity under live elements.
LenWithinCapacityWitness ==
    /\ pc = "live"
    /\ ~Stack_
    /\ Len_ = Cap_
    /\ Len_ > 0
    /\ last.op \in {"shrink_to_fit", "reserve_exact"}
    /\ Cap_ # last.pre.cap

\* C12: pop() on a container of length 0 returns None, is never fatal, makes
\* no allocator call and leaves length, capacity and representation as they
\* were.
PopOnEmptyIsNone ==
    (last.op = "pop" /\ last.pre.len = 0) =>
        /\ last.outcome = "ok"
        /\ pc = "live"
        /\ ~last.ret.some
        /\ Len_ = 0
        /\ Cap_ = last.pre.cap
        /\ Stack_ = last.pre.stack
        /\ vec.heap.ptr = last.pre.ptr
        /\ alloc.nalloc = 0
        /\ alloc.ndealloc = 0

\* pop() on an emptied heap-backed container, whose elements were popped
\* before.
PopOnEmptyIsNoneWitness ==
    /\ last.op = "pop"
    /\ last.pre.len = 0
    /\ ~last.pre.stack
    /\ elems.out # {}

\* How often the element id is held by the slots lo+1 .. hi of s.
Held(s, lo, hi, id) == Cardinality({i \in (lo + 1)..hi : s[i] = id})

\* C13: truncate(n) changes nothing when n >= len(); otherwise it destroys
\* the elements at n..len() once each and no other, sets len() to n and
\* keeps the elements at 0..n. clear() does what truncate(0) does. Neither
\* changes capacity() or the representation, nor calls the allocator.
TruncateDestroysTail ==
    (last.op \in {"truncate", "clear"}) =>
        /\ last.outcome = "ok"
        /\ pc = "live"
        /\ last.op = "clear" => last.arg = 0
        /\ Cap_ = last.pre.cap
        /\ Stack_ = last.pre.stack
        /\ vec.heap.ptr = last.pre.ptr
        /\ alloc.nalloc = 0
        /\ alloc.ndealloc = 0
        /\ IF last.arg >= last.pre.len
           THEN /\ Len_ = last.pre.len
                /\ Elems_ = last.pre.elems
                /\ elems.drops = last.pre.drops
           ELSE /\ Len_ = last.arg
                /\ Elems_ = SubSeq(last.pre.elems, 1, last.arg)
                /\ \A id \in ElemIds :
                      elems.drops[id] =
                          last.pre.drops[id]
                              + Held(last.pre.elems, last.arg, last.pre.len, id)

\* truncate(1) of a heap-backed container of two elements.
TruncateDestroysTailWitness ==
    /\ last.op = "truncate"
    /\ last.arg = 1
    /\ last.pre.len = 2
    /\ ~Stack_
    /\ Len_ = 1

\* The state the calls that fit inline leave: inline storage of the inline
\* capacity, no allocator call made and no block held.
InlineUntouched ==
    /\ last.outcome = "ok"
    /\ pc = "live"
    /\ Stack_
    /\ Cap_ = StackBuffer_capacity(T)
    /\ alloc.nalloc = 0
    /\ alloc.ndealloc = 0
    /\ alloc.count = 0

\* C14: new(), with_capacity(c) with c <= inline capacity (0 included) and
\* reserve_exact(additional) on an inline container with
\* len() + additional <= inline capacity make no allocator call and leave the
\* container inline with capacity() equal to the inline capacity; an inline
\* container holds no allocation.
InlineRequestsNeverAllocate ==
    /\ last.op = "new" => InlineUntouched
    /\ (last.op = "with_capacity" /\ last.arg <= StackBuffer_capacity(T))
           => InlineUntouched
    /\ (/\ last.op = "reserve_exact"
        /\ last.pre.stack
        /\ last.pre.len + last.arg <= StackBuffer_capacity(T))
           => InlineUntouched
    /\ Stack_ => (alloc.count = 0 /\ \A p \in Ptrs : alloc.mem[p] = NoBlock)

\* with_capacity asked for exactly the inline capacity.
InlineRequestsNeverAllocateWitness ==
    /\ last.op = "with_capacity"
    /\ last.arg = StackBuffer_capacity(T)
    /\ last.arg > 0
    /\ Stack_

\* C15: a call that finds the container inline and leaves it heap-backed is
\* with_capacity or reserve_exact asking for more than the inline capacity,
\* never push, pop, set_len, truncate, clear or shrink_to_fit; pushes that
\* fill an inline container leave it inline, and reserve_exact(1) on the full
\* inline container moves it to the heap with one allocation and
\* capacity() >= inline capacity + 1.
OnlyGrowthLeavesInline ==
    /\ (last.pre.stack /\ ~Stack_) =>
           /\ last.op \in {"with_capacity", "reserve_exact"}
           /\ last.outcome = "ok"
           /\ last.pre.len + last.arg > StackBuffer_capacity(T)
           /\ alloc.nalloc = 1
    /\ (last.op = "push" /\ last.pre.stack) =>
           (Stack_ /\ Len_ <= StackBuffer_capacity(T))
    /\ (/\ Returned("reserve_exact")
        /\ last.pre.stack
        /\ last.pre.len = StackBuffer_capacity(T)
        /\ last.arg = 1) =>
           /\ ~Stack_
           /\ Cap_ >= StackBuffer_capacity(T) + 1
           /\ alloc.nalloc = 1
           /\ alloc.count = 1

\* reserve_exact(1) on an inline container that pushes have filled.
OnlyGrowthLeavesInlineWitness ==
    /\ Returned("reserve_exact")
    /\ last.arg = 1
    /\ last.pre.stack
    /\ last.pre.len = StackBuffer_capacity(T)
    /\ last.pre.len >= 1
    /\ ins.pure
    /\ ins.vals = last.pre.elems
    /\ ~Stack_

\* C16: a null result of allocate or reallocate ends the call fatally, by
\* handle_alloc_error or by a panic, and is never returned from; the
\* container's pointer, length, capacity and representation are then as the
\* failing call found them, and so are its elements and the live allocations.
\* Whenever a call ends the process, the container is as the call found it.
AllocationFailureIsFatal ==
    LET Unmodified == /\ vec.heap.ptr = last.pre.ptr
                      /\ Len_ = last.pre.len
                      /\ Cap_ = last.pre.cap
                      /\ Stack_ = last.pre.stack
                      /\ Elems_ = last.pre.elems
                      /\ alloc.ndealloc = 0
                      /\ alloc.count = IF Stack_ THEN 0 ELSE 1
    IN
    /\ alloc.nnull > 0 =>
           /\ alloc.nnull = 1
           /\ last.outcome \in {"abort", "panic"}
           /\ pc \in {"aborted", "unwinding"}
           /\ Unmodified
    /\ last.outcome = "abort" => (pc = "aborted" /\ Unmodified)

\* reallocate returned null while a heap-backed container with elements was
\* growing.
AllocationFailureIsFatalWitness ==
    /\ last.op = "reserve_exact"
    /\ last.outcome = "abort"
    /\ alloc.nnull = 1
    /\ ~last.pre.stack
    /\ last.pre.len > 0

\* C17: when reserve_exact(additional) finds len() + additional, as it
\* computes it, above capacity() and returns, capacity() is exactly
\* len() + additional, got with one allocation, whether the container was
\* inline or heap-backed, and the container is heap-backed.
ReserveExactGrowsExactly ==
    (/\ Returned("reserve_exact")
     /\ (last.pre.len + last.arg) % UsizeModulus > last.pre.cap) =>
        /\ Cap_ = last.pre.len + last.arg
        /\ ~Stack_
        /\ vec.heap.cap_ = last.pre.len + last.arg
        /\ alloc.mem[vec.heap.ptr].size = (last.pre.len + last.arg) * T.size
        /\ alloc.nalloc = 1
        /\ Len_ = last.pre.len

\* A heap-backed container with an element and spare capacity regrown to
\* len() + additional, which is less than capacity() + additional.
ReserveExactGrowsExactlyWitness ==
    /\ Returned("reserve_exact")
    /\ ~last.pre.stack
    /\ last.pre.len > 0
    /\ last.pre.cap > last.pre.len
    /\ Cap_ > last.pre.cap
    /\ Cap_ = last.pre.len + last.arg

\* C18: push(e) called with len() < capacity() puts e at index len(), raises
\* len() by one and leaves the elements before it, capacity() and the
\* representation as they were; after k pushes into an empty container,
\* with reserve_exact calls between them, the slice view is the k pushed
\* values in the order they were pushed.
PushAppends ==
    /\ last.op = "push" =>
           /\ last.outcome = "ok"
           /\ last.pre.len < last.pre.cap
           /\ Len_ = last.pre.len + 1
           /\ Elems_ = Append(last.pre.elems, last.arg)
           /\ Elems_[last.pre.len + 1] = last.arg
           /\ Cap_ = last.pre.cap
           /\ Stack_ = last.pre.stack
           /\ vec.heap.ptr = last.pre.ptr
           /\ alloc.nalloc = 0
           /\ alloc.ndealloc = 0
    /\ (ins.pure /\ pc \in {"created", "live"}) => Elems_ = ins.vals

\* A push that followed the move of a pushed element from the inline storage
\* to the heap by reserve_exact.
PushAppendsWitness ==
    /\ last.op = "push"
    /\ ins.pure
    /\ Len(ins.vals) = 2
    /\ ~Stack_
    /\ ins.moved
    /\ Elems_ = <<1, 2>>

\* The elements made so far.
Created == 1..(elems.next - 1)

\* How often the container holds the element id among its len() elements.
LiveCopies(id) == IF Len_ = 0 THEN 0 ELSE Held(Elems_, 0, Len_, id)

\* C19: pop() moves the last element out: it is returned, is no longer
\* among the len() elements, and no later truncate, clear or drop destroys
\* it. Every element is at any time either held once by the container, or
\* was returned by pop, or was destroyed once, and never two of these; after
\* drop none is held.
ElementLeavesOnce ==
    /\ elems.out \subseteq Created
    /\ \A id \in Created :
          LiveCopies(id) + (IF id \in elems.out THEN 1 ELSE 0) + elems.drops[id] = 1
    /\ \A id \in ElemIds \ Created : elems.drops[id] = 0
    /\ pc = "dropped" =>
          \A id \in Created : (id \in elems.out) # (elems.drops[id] = 1)
    /\ (last.op = "pop" /\ last.ret.some) =>
          /\ last.ret.val = last.pre.elems[last.pre.len]
          /\ Len_ = last.pre.len - 1
          /\ LiveCopies(last.ret.val) = 0
          /\ elems.drops = last.pre.drops

\* A dropped container one of whose elements was popped and another destroyed
\* by the drop.
ElementLeavesOnceWitness ==
    /\ pc = "dropped"
    /\ last.op = "drop"
    /\ last.pre.len > 0
    /\ elems.out # {}
    /\ \E id \in Created : elems.drops[id] = 1 /\ id \notin elems.out

\* The element sizes that give an inline capacity above 0, and the first
\* that gives 0.
ElemSizes == 1..(SizeOfBuffer0 + SizeOfBuffer1 + 1)

\* The elements the container owns: made, not returned by pop, not destroyed.
Owned == {id \in Created : id \notin elems.out /\ elems.drops[id] = 0}

\* C20: the tag byte is 255 exactly when the slot holds a heap descriptor;
\* while the container is inline the tag is the number of elements it holds
\* and lies in 0..=inline capacity, and the inline capacity is below 255 for
\* every element size.
TagAgreesWithRepresentation ==
    /\ pc # "dropped" => ((vec.len_ = U8Max) <=> (vec.heap.ptr # NULL))
    /\ pc = "dropped" => ((vec.len_ = U8Max) <=> ~last.pre.stack)
    /\ vec.len_ # U8Max =>
           /\ vec.len_ = Cardinality(Owned)
           /\ vec.len_ \in 0..StackBuffer_capacity(T)
           /\ Len_ = vec.len_
    /\ \A size \in ElemSizes :
           StackBuffer_capacity([size |-> size, align |-> 1]) < U8Max

\* A full inline container, and the same elements right after the move to
\* the heap.
TagAgreesWithRepresentationWitness ==
    /\ Returned("reserve_exact")
    /\ last.pre.stack
    /\ last.pre.len = StackBuffer_capacity(T)
    /\ last.pre.len > 0
    /\ vec.len_ = U8Max
    /\ vec.heap.len_ = last.pre.len
    /\ Cardinality(Owned) = last.pre.len

\* The calls on the trace of the last call that are calls of fn.
Calls(fn) == {i \in DOMAIN alloc.trace : alloc.trace[i].fn = fn}

\* The calls of the heap store's creation and regrowth on the trace.
HeapCalls == Calls("HeapBuffer::with_capacity") \cup Calls("HeapBuffer::set_capacity")

\* The calls to the allocator on the trace.
AllocCalls == Calls("alloc") \cup Calls("realloc") \cup Calls("dealloc")

\* C21: a heap creation or regrowth whose capacity * size_of(T) overflows
\* usize panics before the allocator is called for it, and the container is
\* as the call found it; so it is for with_capacity and reserve_exact
\* whenever the capacity they ask for has such a byte size.
ByteSizeOverflowIsFatal ==
    LET Fatal == /\ last.outcome = "panic"
                 /\ pc = "unwinding"
                 /\ AllocCalls = {}
                 /\ alloc.nalloc = 0
                 /\ alloc.ndealloc = 0
                 /\ Len_ = last.pre.len
                 /\ Cap_ = last.pre.cap
                 /\ Stack_ = last.pre.stack
                 /\ vec.heap.ptr = last.pre.ptr
    IN
    /\ \A i \in HeapCalls : alloc.trace[i].capacity * T.size > UsizeMax => Fatal
    /\ (last.op = "with_capacity" /\ last.arg * T.size > UsizeMax) => Fatal
    /\ (/\ last.op = "reserve_exact"
        /\ last.pre.len + last.arg <= UsizeMax
        /\ (last.pre.len + last.arg) * T.size > UsizeMax) => Fatal

\* The regrowth of a heap-backed container with an element to a capacity
\* whose byte size overflows.
ByteSizeOverflowIsFatalWitness ==
    /\ last.op = "reserve_exact"
    /\ last.outcome = "panic"
    /\ ~last.pre.stack
    /\ last.pre.len > 0
    /\ \E i \in Calls("HeapBuffer::set_capacity") :
          /\ alloc.trace[i].capacity = last.pre.len + last.arg
          /\ alloc.trace[i].capacity * T.size > UsizeMax

\* C22: every call of HeapBuffer::set_capacity the container makes, from
\* reserve_exact and from shrink_to_fit, has new_capacity >= len() and
\* new_capacity > 0.
SetCapacityWithinContract ==
    \A i \in Calls("HeapBuffer::set_capacity") :
        /\ last.op \in {"reserve_exact", "shrink_to_fit"}
        /\ alloc.trace[i].capacity >= alloc.trace[i].len
        /\ alloc.trace[i].capacity > 0

\* C23: every call of HeapBuffer::with_capacity the container makes, from
\* SoVec::with_capacity and from reserve_exact, asks for a capacity >= 1 and
\* above the inline capacity, also for element types whose inline capacity
\* is 0.
HeapStoreNeverCreatedEmpty ==
    /\ \A i \in Calls("HeapBuffer::with_capacity") :
          /\ last.op \in {"with_capacity", "reserve_exact"}
          /\ last.pre.stack
          /\ alloc.trace[i].capacity >= 1
          /\ alloc.trace[i].capacity > StackBuffer_capacity(T)
    /\ (last.op = "with_capacity" /\ last.arg = 0) =>
          (Calls("HeapBuffer::with_capacity") = {} /\ Stack_)
    /\ (last.op = "reserve_exact" /\ last.pre.stack /\ last.arg = 0) =>
          (Calls("HeapBuffer::with_capacity") = {} /\ Stack_)

\* The heap store created with capacity 1 for an element type whose inline
\* capacity is 0.
HeapStoreNeverCreatedEmptyWitness ==
    /\ StackBuffer_capacity(T) = 0
    /\ Returned("reserve_exact")
    /\ \E i \in Calls("HeapBuffer::with_capacity") : alloc.trace[i].capacity = 1
    /\ ~Stack_
    /\ Cap_ = 1

\* C24: every realloc and dealloc call the container issues passes the
\* layout of the block it holds: stored capacity * size_of(T), which is the
\* byte size the block got at its allocate or reallocate; between calls the
\* stored capacity and the block agree.
LayoutMatchesBlock ==
    /\ \A i \in Calls("realloc") \cup Calls("dealloc") :
          /\ alloc.trace[i].layout = alloc.trace[i].held
          /\ alloc.trace[i].layout = last.pre.cap * T.size
          /\ ~last.pre.stack
    /\ (~Stack_ /\ pc # "dropped") =>
          /\ alloc.mem[vec.heap.ptr] # NoBlock
          /\ HeapBuffer_layout(vec.heap, T) = alloc.mem[vec.heap.ptr].size

\* The drop of a heap-backed container that has held elements releases its
\* block with the layout of the capacity it has then.
LayoutMatchesBlockWitness ==
    /\ pc = "dropped"
    /\ last.op = "drop"
    /\ \E i \in Calls("dealloc") :
          /\ alloc.trace[i].layout = alloc.trace[i].held
          /\ alloc.trace[i].layout = last.pre.cap * T.size
          /\ alloc.trace[i].layout > 0
    /\ last.pre.cap > StackBuffer_capacity(T)
    /\ last.pre.ptr # NULL
    /\ elems.next > 1

\* The blocks the allocator has handed out and not got back.
LiveBlocks == {p \in Ptrs : alloc.mem[p] # NoBlock}

\* C25: the container owns no allocation while inline and exactly one, the
\* block its descriptor points to, while heap-backed, and none after drop;
\* the call that moves it to the heap allocates once and frees nothing; a
\* regrowth leaves one block, the new one, and the old one is freed.
OneLiveAllocation ==
    /\ alloc.count = Cardinality(LiveBlocks)
    /\ alloc.count <= 1
    /\ Stack_ => LiveBlocks = {}
    /\ (~Stack_ /\ pc # "dropped") => LiveBlocks = {vec.heap.ptr}
    /\ pc = "dropped" => LiveBlocks = {}
    /\ (last.pre.stack /\ ~Stack_) =>
          (alloc.nalloc = 1 /\ alloc.ndealloc = 0)
    /\ (~last.pre.stack /\ Calls("realloc") # {} /\ last.outcome = "ok") =>
          /\ alloc.nalloc = 1
          /\ alloc.ndealloc = 1
          /\ vec.heap.ptr # last.pre.ptr => alloc.mem[last.pre.ptr] = NoBlock

\* A heap-backed container with elements whose block was regrown.
OneLiveAllocationWitness ==
    /\ Returned("reserve_exact")
    /\ ~last.pre.stack
    /\ last.pre.len > 0
    /\ Calls("realloc") # {}
    /\ Cap_ > last.pre.cap
    /\ LiveBlocks = {vec.heap.ptr}
    /\ vec.heap.ptr # last.pre.ptr

====
